---------------------------- MODULE Spec2Model ----------------------------
(***************************************************************************)
(* Coldsweat: the per-user read/saved state of feed entries, the entry     *)
(* views built on it, and the "mark all as read" request, as implemented   *)
(* in coldsweat/frontend.py over the tables of coldsweat/models.py.        *)
(*                                                                         *)
(* A table is a bag of rows, so that a duplicate row is a state the model  *)
(* can express; the unique indexes of models.py are what Create enforces.  *)
(* A query result is a bag of entry ids: an entry joined through several   *)
(* Subscription rows occurs several times unless the query is distinct().  *)
(***************************************************************************)
EXTENDS Integers, FiniteSets, Sequences, Bags, TLC

VARIABLES
    now,              \* datetime.utcnow(), in whole ticks
    last_checked_on,  \* Feed.last_checked_on of every feed (NULL: never checked)
    entries,          \* the entries table: entry id -> [feed, arrived, last_updated_on]
    subscriptions,    \* the subscriptions table: a set of [user, group, feed]
    Read,             \* the committed rows of Read: a bag of [user, entry, on]
    Saved,            \* the committed rows of Saved: a bag of [user, entry, on]
    tx,               \* per user: the entry_list_mark_post call in flight
    fetch,            \* the Fetcher's position
    lastOp,           \* the request handled last and how it ended
    response,         \* what the last request was asked and answered, if a GET /entries
    engine,           \* config.get('database', 'engine')
    references        \* the references table: a set of [entry, link]

vars == <<now, last_checked_on, entries, subscriptions, Read, Saved, tx, fetch, lastOp,
          response, engine, references>>

----------------------------------------------------------------------------
\* The entities of the model.

Users == {"u1", "u2"}

\* self.user when the session holds no user
NoUser == "nobody"

Groups == {"g1", "g2"}

Feeds == {"f1", "f2"}

\* The icon every feed row points to (Feed.icon, default=1).
DefaultIcon == "icon1"

\* The rows of the icons table.
Icons == {DefaultIcon}

\* A DateTimeField that is NULL.
NULL == 0 - 1

\* The clock stops here.
MaxTime == 1

\* Entry ids a request may name.
EntryIds == {1, 2, 3}

\* The values of the "as" parameter of POST /entries/<id>.
Statuses == {"read", "unread", "saved", "unsaved"}

----------------------------------------------------------------------------
\* Tables.

\* The rows of `table` that belong to (user, entry).
RowsOf(table, user, entry) ==
    {r \in BagToSet(table) : r.user = user /\ r.entry = entry}

\* INSERT with no unique index on (user, entry): the row is always added.
CreateNoIndex(table, user, entry, on) ==
    [error |-> FALSE,
     table |-> table (+) SetToBag({[user |-> user, entry |-> entry, on |-> on]})]

\* INSERT OR REPLACE: an existing row of (user, entry) is replaced by the new one.
CreateOrReplace(table, user, entry, on) ==
    [error |-> FALSE,
     table |-> LET kept == {r \in BagToSet(table) : ~(r.user = user /\ r.entry = entry)}
               IN  [r \in kept |-> table[r]]
                     (+) SetToBag({[user |-> user, entry |-> entry, on |-> on]})]

\* Read.create / Saved.create: INSERT under the unique index on (user, entry).
\* error is peewee's IntegrityError; the table is then left as it was.
Create(table, user, entry, on) ==
    IF RowsOf(table, user, entry) # {}
    THEN [error |-> TRUE, table |-> table]
    ELSE [error |-> FALSE,
          table |-> table (+) SetToBag({[user |-> user, entry |-> entry, on |-> on]})]

\* The mutant of C24: DELETE with no user in the WHERE clause.
DeleteOfAnyUser(table, user, entry) ==
    LET gone == {r \in BagToSet(table) : r.entry = entry}
        kept == BagToSet(table) \ gone
    IN  [count |-> BagCardinality([r \in gone |-> table[r]]),
         table |-> [r \in kept |-> table[r]]]

\* Model.delete().where((user == u) & (entry == e)).execute(): the rows left
\* and the number of rows deleted.
Delete(table, user, entry) ==
    LET gone == RowsOf(table, user, entry)
        kept == BagToSet(table) \ gone
    IN  [count |-> BagCardinality([r \in gone |-> table[r]]),
         table |-> [r \in kept |-> table[r]]]

\* Read.select(Read.entry).where(Read.user == user), and the same on Saved.
EntriesIn(table, user) == {r.entry : r \in {x \in BagToSet(table) : x.user = user}}

----------------------------------------------------------------------------
\* Queries.

\* SELECT DISTINCT: one copy of every row.
distinct(q) == [e \in DOMAIN q |-> 1]

\* The rows of Entry JOIN Feed JOIN Icon JOIN Subscription.
JoinRows ==
    {[entry |-> e, feed |-> entries[e].feed, icon |-> i, sub |-> s] :
        e \in DOMAIN entries, i \in Icons, s \in subscriptions}

\* _q: the join, every joined row on its keys; the domain of last_checked_on
\* is the rows of feeds.
_q == {r \in JoinRows : /\ r.feed \in DOMAIN last_checked_on
                       /\ r.icon = DefaultIcon /\ r.sub.feed = r.feed}

\* The projection of joined rows on the entry columns: an entry occurs once for
\* every joined row it is part of.
Select(rows) ==
    [e \in {r.entry : r \in rows} |-> Cardinality({r \in rows : r.entry = e})]

\* get_unread_entries whose subquery on Read forgets the user.
get_unread_entries_anyone(user) ==
    distinct(Select({r \in _q : /\ r.sub.user = user
                                /\ r.entry \notin {x.entry : x \in BagToSet(Read)}}))

\* get_unread_entries without distinct().
get_unread_entries_joined(user) ==
    Select({r \in _q : r.sub.user = user /\ r.entry \notin EntriesIn(Read, user)})

get_unread_entries(user) ==
    distinct(Select({r \in _q : r.sub.user = user /\ r.entry \notin EntriesIn(Read, user)}))

get_saved_entries(user) ==
    distinct(Select({r \in _q : r.sub.user = user /\ r.entry \in EntriesIn(Saved, user)}))

\* get_all_entries without distinct().
get_all_entries_joined(user) ==
    Select({r \in _q : r.sub.user = user})

get_all_entries(user) ==
    distinct(Select({r \in _q : r.sub.user = user}))

get_group_entries(user, group) ==
    Select({r \in _q : r.sub.user = user /\ r.sub.group = group})

\* get_feed_entries that returns q without the check on the user.
get_feed_entries_anyone(user, feed) ==
    distinct(Select({r \in _q : r.sub.feed = feed}))

get_feed_entries(user, feed) ==
    distinct(Select({r \in _q : r.sub.user = user /\ r.sub.feed = feed}))

\* The mutant of C22: one per Read row.
count_read_rows == BagCardinality(Read)

\* SELECT COUNT(*) of the entries that are in the subquery of Read: one per
\* entry, however many Read rows name it.
count_read_entries == Cardinality({e \in DOMAIN entries : \E r \in BagToSet(Read) : r.entry = e})

\* get_stats: the figures of the whole database, for no user in particular.
\* unread_entry_count counts the entries whose id is not in SELECT entry FROM read.
get_stats ==
    LET checked == {last_checked_on[f] : f \in DOMAIN last_checked_on} \ {NULL}
    IN  [last_checked_on |-> IF checked = {} THEN "Never"
                             ELSE CHOOSE t \in checked : \A other \in checked : other <= t,
         entry_count |-> Cardinality(DOMAIN entries),
         unread_entry_count |-> Cardinality(DOMAIN entries) - count_read_entries,
         feed_count |-> Cardinality(DOMAIN last_checked_on)]


----------------------------------------------------------------------------
\* Requests.

\* What lastOp holds before any request.
NoOp == [op |-> "none", user |-> NoUser, entry |-> 0, status |-> "", outcome |-> ""]

\* A query string that names no filter.
Unfiltered == [kind |-> "unread", id |-> ""]

\* What response holds when the last request was no GET /entries, or was refused.
NoResponse == [selector |-> Unfiltered, offset |-> 0, entries |-> <<>>, count |-> 0,
               next |-> 0]

\* The call of entry_list_mark_post of a user who has none in flight.
Idle == [pc |-> "idle", before |-> NULL, todo |-> EmptyBag, pending |-> EmptyBag,
         alone |-> TRUE]

\* The rows a transaction in flight has inserted and not yet committed.
Pending(user) == tx[user].pending

\* An INSERT of (user, entry) waits for the transaction that holds an uncommitted
\* row of the same key.
Blocked(user, entry) == RowsOf(Pending(user), user, entry) # {}

\* A write by another request reaches the tables while a call is in flight.
Disturb(t) ==
    [u \in Users |-> IF t[u].pc = "idle" THEN t[u] ELSE [t[u] EXCEPT !.alone = FALSE]]

\* _mark_entry with an UPDATE of the row's timestamp when the row is there.
_mark_entry_touch(user, entry, status) ==
    CASE status = "read" ->
            [Read |-> CreateOrReplace(Read, user, entry, now).table, Saved |-> Saved,
             logged |-> TRUE]
      [] status = "unread" ->
            [Read |-> Delete(Read, user, entry).table, Saved |-> Saved, logged |-> TRUE]
      [] status = "saved" ->
            [Read |-> Read, Saved |-> CreateOrReplace(Saved, user, entry, now).table,
             logged |-> TRUE]
      [] status = "unsaved" ->
            [Read |-> Read, Saved |-> Delete(Saved, user, entry).table, logged |-> TRUE]
      [] OTHER -> [Read |-> Read, Saved |-> Saved, logged |-> TRUE]

\* _mark_entry whose 'saved' and 'unsaved' branches work on Read.
_mark_entry_one_table(user, entry, status) ==
    CASE status \in {"read", "saved"} ->
            LET c == Create(Read, user, entry, now)
            IN  [Read |-> c.table, Saved |-> Saved, logged |-> ~c.error]
      [] status \in {"unread", "unsaved"} ->
            LET d == Delete(Read, user, entry)
            IN  [Read |-> d.table, Saved |-> Saved, logged |-> d.count # 0]
      [] OTHER -> [Read |-> Read, Saved |-> Saved, logged |-> TRUE]

\* FrontendApp._mark_entry: the tables after the call, and whether it reached
\* its last line (it returns early when there was nothing to do).
_mark_entry(user, entry, status) ==
    CASE status = "read" ->
            LET c == Create(Read, user, entry, now)
            IN  [Read |-> c.table, Saved |-> Saved, logged |-> ~c.error]
      [] status = "unread" ->
            LET d == Delete(Read, user, entry)
            IN  [Read |-> d.table, Saved |-> Saved, logged |-> d.count # 0]
      [] status = "saved" ->
            LET c == Create(Saved, user, entry, now)
            IN  [Read |-> Read, Saved |-> c.table, logged |-> ~c.error]
      [] status = "unsaved" ->
            LET d == Delete(Saved, user, entry)
            IN  [Read |-> Read, Saved |-> d.table, logged |-> d.count # 0]
      [] OTHER -> [Read |-> Read, Saved |-> Saved, logged |-> TRUE]

\* login_required: the handler runs only when the session holds a user.
login_required(user) == user # NoUser

\* A request that ends without touching a table.
Respond(op, user, entry, status, outcome) ==
    /\ lastOp' = [op |-> op, user |-> user, entry |-> entry, status |-> status,
                  outcome |-> outcome]
    /\ response' = NoResponse
    /\ UNCHANGED <<now, last_checked_on, entries, subscriptions, Read, Saved, tx, fetch,
                   engine, references>>

\* entry_post without @login_required.
entry_post_ungated(user, entry_id, status) ==
    IF entry_id \notin DOMAIN entries
    THEN Respond("entry_post", user, entry_id, "", "NotFound")
    ELSE /\ (status = "read" /\ user \in Users) => ~Blocked(user, entry_id)
         /\ LET m == _mark_entry(user, entry_id, status)
            IN  /\ Read' = m.Read
                /\ Saved' = m.Saved
                /\ tx' = IF m.logged THEN Disturb(tx) ELSE tx
                /\ lastOp' = [op |-> "entry_post", user |-> user, entry |-> entry_id,
                              status |-> status,
                              outcome |-> IF m.logged THEN "marked" ELSE "ignored"]
         /\ response' = NoResponse
         /\ UNCHANGED <<now, last_checked_on, entries, subscriptions, fetch, engine,
                        references>>

\* entry_post without the lookup of the entry.
entry_post_unchecked(user, entry_id, status) ==
    IF ~login_required(user)
    THEN Respond("entry_post", user, 0, "", "Unauthorized")
    ELSE /\ status = "read" => ~Blocked(user, entry_id)
         /\ LET m == _mark_entry(user, entry_id, status)
            IN  /\ Read' = m.Read
                /\ Saved' = m.Saved
                /\ tx' = IF m.logged THEN Disturb(tx) ELSE tx
                /\ lastOp' = [op |-> "entry_post", user |-> user, entry |-> entry_id,
                              status |-> status,
                              outcome |-> IF m.logged THEN "marked" ELSE "ignored"]
         /\ response' = NoResponse
         /\ UNCHANGED <<now, last_checked_on, entries, subscriptions, fetch, engine,
                        references>>

\* POST /entries/<id> with as=status and mark: FrontendApp.entry_post.
entry_post(user, entry_id, status) ==
    IF ~login_required(user)
    THEN Respond("entry_post", user, 0, "", "Unauthorized")
    ELSE IF entry_id \notin DOMAIN entries
    THEN Respond("entry_post", user, entry_id, "", "NotFound")
    ELSE /\ status = "read" => ~Blocked(user, entry_id)
         /\ LET m == _mark_entry(user, entry_id, status)
            IN  /\ Read' = m.Read
                /\ Saved' = m.Saved
                /\ tx' = IF m.logged THEN Disturb(tx) ELSE tx
                /\ lastOp' = [op |-> "entry_post", user |-> user, entry |-> entry_id,
                              status |-> status,
                              outcome |-> IF m.logged THEN "marked" ELSE "ignored"]
         /\ response' = NoResponse
         /\ UNCHANGED <<now, last_checked_on, entries, subscriptions, fetch, engine,
                        references>>

\* ENTRIES_PER_PAGE, scaled down from 30.
ENTRIES_PER_PAGE == 2

\* A group id that is the id of no row of groups.
NoGroup == "g9"

\* A feed id that is the id of no row of feeds.
NoFeed == "f9"

\* A group= or feed= parameter that int() does not take.
Malformed == "x"

\* What the query string of a GET selects: ?saved, ?group=<id>, ?feed=<id>, ?all,
\* or none of them (unread).
Selectors ==
    {[kind |-> k, id |-> ""] : k \in {"unread", "saved", "all"}}
        \cup {[kind |-> "group", id |-> g] : g \in Groups \cup {NoGroup, Malformed}}
        \cup {[kind |-> "feed", id |-> f] : f \in Feeds \cup {NoFeed, Malformed}}

\* The query strings GET /entries/<id> is asked with: no filter, and a group
\* that does not exist.
EntryQueries == {Unfiltered, [kind |-> "group", id |-> NoGroup]}

\* The offset= parameter: the start of the first and of the second page.
Offsets == {0, ENTRIES_PER_PAGE}

\* SelectQuery.count(): the number of rows of the query.
count(q) == BagCardinality(q)

\* What _make_view_variables has to return for a filter: the count and the query.
view(q) == [raised |-> "", count |-> count(q), q |-> q]

\* _make_view_variables left by an exception no handler catches.
raise(exception) == [raised |-> exception, count |-> 0, q |-> EmptyBag]

\* FrontendApp._make_view_variables: the filter the query string selects.
\* Group.get and Feed.get raise DoesNotExist, int() raises ValueError.
_make_view_variables(user, selector) ==
    CASE selector.kind = "saved" -> view(get_saved_entries(user))
      [] selector.kind = "group" ->
            IF selector.id = Malformed THEN raise("ValueError")
            ELSE IF selector.id \notin Groups THEN raise("DoesNotExist")
            ELSE view(get_group_entries(user, selector.id))
      [] selector.kind = "feed" ->
            IF selector.id = Malformed THEN raise("ValueError")
            ELSE IF selector.id \notin DOMAIN last_checked_on THEN raise("DoesNotExist")
            ELSE view(get_feed_entries(user, selector.id))
      [] selector.kind = "all" -> view(get_all_entries(user))
      [] OTHER -> view(get_unread_entries(user))

\* The mutant of C23: the rows of q with no ORDER BY, in any order.
unordered(q) ==
    {s \in [1 .. count(q) -> DOMAIN q] :
        \A e \in DOMAIN q : Cardinality({i \in 1 .. count(q) : s[i] = e}) = q[e]}

\* q.order_by(Entry.last_updated_on.desc()): the rows of q, latest first. SQL
\* leaves the order of rows with equal last_updated_on to the database, so every
\* such order is a result the query may give.
order_by_last_updated_on_desc(q) ==
    {s \in [1 .. count(q) -> DOMAIN q] :
        /\ \A e \in DOMAIN q : Cardinality({i \in 1 .. count(q) : s[i] = e}) = q[e]
        /\ \A i, j \in 1 .. count(q) :
              i < j => entries[s[i]].last_updated_on >= entries[s[j]].last_updated_on}

\* .offset(offset).limit(limit) on rows in order.
offset_limit(s, offset, limit) ==
    LET left == IF Len(s) > offset THEN Len(s) - offset ELSE 0
        n == IF left < limit THEN left ELSE limit
    IN  [i \in 1 .. n |-> s[offset + i]]

\* The mutant of C25: the entry is shown and no status is written.
entry_shown_only(user, entry_id, selector) ==
    IF ~login_required(user)
    THEN Respond("entry", user, 0, "", "Unauthorized")
    ELSE IF entry_id \notin DOMAIN entries
    THEN Respond("entry", user, entry_id, "", "NotFound")
    ELSE LET v == _make_view_variables(user, selector)
         IN  Respond("entry", user, entry_id, "",
                     IF v.raised # "" THEN v.raised ELSE "ignored")

\* GET /entries/<id>: FrontendApp.entry. The entry is marked read, then the view
\* variables of the query string are made, then the entry is returned.
entry(user, entry_id, selector) ==
    IF ~login_required(user)
    THEN Respond("entry", user, 0, "", "Unauthorized")
    ELSE IF entry_id \notin DOMAIN entries
    THEN Respond("entry", user, entry_id, "", "NotFound")
    ELSE /\ ~Blocked(user, entry_id)
         /\ LET m == _mark_entry(user, entry_id, "read")
                v == _make_view_variables(user, selector)
            IN  /\ Read' = m.Read
                /\ Saved' = m.Saved
                /\ tx' = IF m.logged THEN Disturb(tx) ELSE tx
                /\ lastOp' = [op |-> "entry", user |-> user, entry |-> entry_id,
                              status |-> "",
                              outcome |-> IF v.raised # "" THEN v.raised
                                          ELSE IF m.logged THEN "marked" ELSE "ignored"]
         /\ response' = NoResponse
         /\ UNCHANGED <<now, last_checked_on, entries, subscriptions, fetch, engine,
                        references>>

\* GET /entries: FrontendApp.entry_list. The page of the view at the offset,
\* the count of the view and the offset of the next page.
entry_list(user, selector, offset) ==
    IF ~login_required(user)
    THEN /\ lastOp' = [op |-> "entry_list", user |-> user, entry |-> 0, status |-> "",
                       outcome |-> "Unauthorized"]
         /\ response' = NoResponse
         /\ UNCHANGED <<now, last_checked_on, entries, subscriptions, Read, Saved, tx,
                        fetch, engine, references>>
    ELSE LET v == _make_view_variables(user, selector)
         IN  /\ lastOp' = [op |-> "entry_list", user |-> user, entry |-> 0, status |-> "",
                           outcome |-> IF v.raised # "" THEN v.raised ELSE "ok"]
             /\ \E s \in order_by_last_updated_on_desc(v.q) :
                   response' = [selector |-> selector, offset |-> offset,
                                entries |-> IF v.raised # "" THEN <<>>
                                            ELSE offset_limit(s, offset, ENTRIES_PER_PAGE),
                                count |-> v.count,
                                next |-> IF v.raised # "" THEN 0
                                         ELSE offset + ENTRIES_PER_PAGE]
             /\ UNCHANGED <<now, last_checked_on, entries, subscriptions, Read, Saved,
                            tx, fetch, engine, references>>

\* The clock advances.
Tick ==
    /\ now < MaxTime
    /\ now' = now + 1
    /\ UNCHANGED <<last_checked_on, entries, subscriptions, Read, Saved, tx, fetch,
                   lastOp, response, engine, references>>

----------------------------------------------------------------------------
\* POST /entries/mark: FrontendApp.entry_list_mark_post, one step per statement
\* that reaches the database.

\* The mutant of C26: a NULL sorts before every instant.
CheckedBefore_null_first(feed, before) ==
    last_checked_on[feed] = NULL \/ last_checked_on[feed] < before

\* Feed.last_checked_on <= before.
CheckedBefore_inclusive(feed, before) ==
    last_checked_on[feed] # NULL /\ last_checked_on[feed] <= before

\* Feed.last_checked_on < before, in SQL: never true of a NULL.
CheckedBefore(feed, before) ==
    last_checked_on[feed] # NULL /\ last_checked_on[feed] < before

\* The candidates: Entry JOIN Feed JOIN Subscription, not distinct, without the
\* entries the user has read and the feeds checked at or after `before`.
MarkQuery(user, before) ==
    Select({r \in _q : /\ r.sub.user = user
                       /\ r.entry \notin EntriesIn(Read, user)
                       /\ CheckedBefore(r.feed, before)})

\* mark_begin where a `before` that is missing or no number stands for now.
mark_begin_default_now(user, before) ==
    IF ~login_required(user)
    THEN Respond("mark_begin", user, 0, "", "Unauthorized")
    ELSE LET cutoff == IF before = NULL THEN now ELSE before
         IN  /\ tx[user].pc # "loop"
             /\ tx' = [tx EXCEPT ![user] =
                          [pc |-> "loop", before |-> cutoff,
                           todo |-> MarkQuery(user, cutoff),
                           pending |-> EmptyBag, alone |-> TRUE]]
             /\ lastOp' = [op |-> "mark_begin", user |-> user, entry |-> 0,
                           status |-> "", outcome |-> "ok"]
             /\ response' = NoResponse
             /\ UNCHANGED <<now, last_checked_on, entries, subscriptions, Read, Saved,
                            fetch, engine, references>>

\* The request up to the first row of q: the parameter is parsed, the
\* transaction opened and the query run.
mark_begin(user, before) ==
    IF ~login_required(user)
    THEN Respond("mark_begin", user, 0, "", "Unauthorized")
    ELSE IF before = NULL
    THEN Respond("mark_begin", user, 0, "", "BadRequest")
    ELSE /\ tx[user].pc # "loop"
         /\ tx' = [tx EXCEPT ![user] =
                      [pc |-> "loop", before |-> before, todo |-> MarkQuery(user, before),
                       pending |-> EmptyBag, alone |-> TRUE]]
         /\ lastOp' = [op |-> "mark_begin", user |-> user, entry |-> 0, status |-> "",
                       outcome |-> "ok"]
         /\ response' = NoResponse
         /\ UNCHANGED <<now, last_checked_on, entries, subscriptions, Read, Saved,
                        fetch, engine, references>>

\* mark_insert with `break` for `continue`: an IntegrityError ends the loop.
mark_insert_break(user, e) ==
    /\ tx[user].pc = "loop"
    /\ BagIn(e, tx[user].todo)
    /\ LET c == Create(Read (+) Pending(user), user, e, now)
       IN  /\ tx' = [tx EXCEPT ![user].todo = IF c.error THEN EmptyBag
                                              ELSE @ (-) SetToBag({e}),
                               ![user].pending =
                                   IF c.error THEN @
                                   ELSE @ (+) SetToBag({[user |-> user, entry |-> e,
                                                         on |-> now]})]
           /\ lastOp' = [op |-> "mark_insert", user |-> user, entry |-> e, status |-> "",
                         outcome |-> IF c.error THEN "ignored" ELSE "marked"]
    /\ UNCHANGED <<now, last_checked_on, entries, subscriptions, Read, Saved, fetch,
                   response, engine, references>>

\* mark_insert without the try: an IntegrityError leaves the loop and the
\* transaction is rolled back.
mark_insert_raise(user, e) ==
    /\ tx[user].pc = "loop"
    /\ BagIn(e, tx[user].todo)
    /\ LET c == Create(Read (+) Pending(user), user, e, now)
       IN  /\ tx' = [tx EXCEPT ![user] =
                        IF c.error THEN Idle
                        ELSE [@ EXCEPT !.todo = @ (-) SetToBag({e}),
                                       !.pending = @ (+) SetToBag({[user |-> user,
                                                        entry |-> e, on |-> now]})]]
           /\ lastOp' = [op |-> "mark_insert", user |-> user, entry |-> e, status |-> "",
                         outcome |-> IF c.error THEN "ignored" ELSE "marked"]
    /\ UNCHANGED <<now, last_checked_on, entries, subscriptions, Read, Saved, fetch,
                   response, engine, references>>

\* mark_insert outside a transaction: every row is committed as it is inserted.
mark_insert_autocommit(user, e) ==
    /\ tx[user].pc = "loop"
    /\ BagIn(e, tx[user].todo)
    /\ LET c == Create(Read, user, e, now)
       IN  /\ Read' = c.table
           /\ tx' = [tx EXCEPT ![user].todo = @ (-) SetToBag({e}),
                               ![user].pending =
                                   IF c.error THEN @
                                   ELSE @ (+) SetToBag({[user |-> user, entry |-> e,
                                                         on |-> now]})]
           /\ lastOp' = [op |-> "mark_insert", user |-> user, entry |-> e, status |-> "",
                         outcome |-> IF c.error THEN "ignored" ELSE "marked"]
    /\ UNCHANGED <<now, last_checked_on, entries, subscriptions, Saved, fetch, response,
                   engine, references>>

\* One turn of the loop: Read.create for a row of q, IntegrityError swallowed.
mark_insert(user, e) ==
    /\ tx[user].pc = "loop"
    /\ BagIn(e, tx[user].todo)
    /\ LET c == Create(Read (+) Pending(user), user, e, now)
       IN  /\ tx' = [tx EXCEPT ![user].todo = @ (-) SetToBag({e}),
                               ![user].pending =
                                   IF c.error THEN @
                                   ELSE @ (+) SetToBag({[user |-> user, entry |-> e,
                                                         on |-> now]})]
           /\ lastOp' = [op |-> "mark_insert", user |-> user, entry |-> e, status |-> "",
                         outcome |-> IF c.error THEN "ignored" ELSE "marked"]
    /\ UNCHANGED <<now, last_checked_on, entries, subscriptions, Read, Saved, fetch,
                   response, engine, references>>

\* The loop is over: the transaction commits and the request answers.
mark_commit(user) ==
    /\ tx[user].pc = "loop"
    /\ tx[user].todo = EmptyBag
    /\ Read' = Read (+) Pending(user)
    /\ tx' = [u \in Users |->
                IF u = user THEN [tx[u] EXCEPT !.pc = "done", !.pending = EmptyBag]
                ELSE Disturb(tx)[u]]
    /\ lastOp' = [op |-> "mark_commit", user |-> user, entry |-> 0, status |-> "",
                  outcome |-> "ok"]
    /\ response' = NoResponse
    /\ UNCHANGED <<now, last_checked_on, entries, subscriptions, Saved, fetch, engine,
                   references>>

----------------------------------------------------------------------------
\* The Fetcher.

\* Entries the Fetcher may insert.
MaxEntries == 2

\* The Fetcher between two feeds.
Resting == [pc |-> "idle", feed |-> "", instant |-> NULL]

\* A check of `feed` starts: the instant of the check is taken.
fetch_begin(feed) ==
    /\ fetch.pc = "idle"
    /\ fetch' = [pc |-> "fetching", feed |-> feed, instant |-> now]
    /\ UNCHANGED <<now, last_checked_on, entries, subscriptions, Read, Saved, tx,
                   lastOp, response, engine, references>>

\* A new entry of the feed is inserted.
fetch_add_entry ==
    /\ fetch.pc = "fetching"
    /\ Cardinality(DOMAIN entries) < MaxEntries
    /\ LET id == Cardinality(DOMAIN entries) + 1
       IN  entries' = [e \in DOMAIN entries \cup {id} |->
                          IF e = id THEN [feed |-> fetch.feed, arrived |-> now,
                                          last_updated_on |-> now]
                          ELSE entries[e]]
    /\ tx' = Disturb(tx)
    /\ UNCHANGED <<now, last_checked_on, subscriptions, Read, Saved, fetch, lastOp,
                   response, engine, references>>

\* The feed row is saved with the instant of the check.
fetch_save ==
    /\ fetch.pc = "fetching"
    /\ last_checked_on' = [last_checked_on EXCEPT ![fetch.feed] = fetch.instant]
    /\ fetch' = Resting
    /\ tx' = Disturb(tx)
    /\ UNCHANGED <<now, entries, subscriptions, Read, Saved, lastOp, response, engine,
                   references>>

----------------------------------------------------------------------------
\* Deletions, and the foreign keys declared with on_delete='CASCADE'.

\* The values of the engine option that the module accepts.
Engines == {"sqlite", "mysql", "postgresql"}

\* Whether the connection enforces the foreign keys of the tables. SQLite does
\* so only on a connection that has run PRAGMA foreign_keys = ON, which neither
\* connect nor setup does; MySQL and PostgreSQL always do.
foreign_keys == engine # "sqlite"

\* The links a reference may point to.
Links == {"l1"}

\* ON DELETE CASCADE of Read.entry and Saved.entry: the rows of `table` left
\* when the entries `gone` are deleted.
on_delete_cascade(table, gone) ==
    LET kept == {r \in BagToSet(table) : r.entry \notin gone}
    IN  [r \in kept |-> table[r]]

\* DELETE FROM entries for the entries `gone`, with what the foreign keys of
\* Read, Saved and Reference make of it.
delete_entries(gone) ==
    /\ entries' = [e \in DOMAIN entries \ gone |-> entries[e]]
    /\ IF foreign_keys
       THEN /\ Read' = on_delete_cascade(Read, gone)
            /\ Saved' = on_delete_cascade(Saved, gone)
            /\ references' = {r \in references : r.entry \notin gone}
       ELSE UNCHANGED <<Read, Saved, references>>

\* An entry is deleted.
delete_entry(e) ==
    /\ e \in DOMAIN entries
    /\ delete_entries({e})
    /\ tx' = Disturb(tx)
    /\ lastOp' = [op |-> "delete_entry", user |-> NoUser, entry |-> e, status |-> "",
                  outcome |-> "ok"]
    /\ response' = NoResponse
    /\ UNCHANGED <<now, last_checked_on, subscriptions, fetch, engine>>

\* A feed is deleted; the foreign keys of Entry.feed and Subscription.feed
\* take its entries and subscriptions with it.
delete_feed(feed) ==
    /\ feed \in DOMAIN last_checked_on
    /\ last_checked_on' = [f \in DOMAIN last_checked_on \ {feed} |-> last_checked_on[f]]
    /\ IF foreign_keys
       THEN /\ delete_entries({e \in DOMAIN entries : entries[e].feed = feed})
            /\ subscriptions' = {sub \in subscriptions : sub.feed # feed}
       ELSE UNCHANGED <<entries, subscriptions, Read, Saved, references>>
    /\ tx' = Disturb(tx)
    /\ lastOp' = [op |-> "delete_feed", user |-> NoUser, entry |-> 0, status |-> "",
                  outcome |-> "ok"]
    /\ response' = NoResponse
    /\ UNCHANGED <<now, fetch, engine>>

----------------------------------------------------------------------------
\* Specifications.

\* Subscription rows: u1 reaches f1 through both groups, u2 reaches only f2.
SubscriptionRows ==
    {[user |-> "u1", group |-> "g1", feed |-> "f1"],
     [user |-> "u1", group |-> "g2", feed |-> "f1"],
     [user |-> "u1", group |-> "g1", feed |-> "f2"],
     [user |-> "u2", group |-> "g1", feed |-> "f2"]}

\* No request yet, no call in flight, nothing read or saved.
InitRequests ==
    /\ Read = EmptyBag
    /\ Saved = EmptyBag
    /\ tx = [u \in Users |-> Idle]
    /\ fetch = Resting
    /\ lastOp = NoOp
    /\ response = NoResponse
    /\ engine = "sqlite"
    /\ references = {}

\* Two entries fetched earlier, one in each feed, under any choice of the
\* subscription rows.
Init ==
    /\ now = 0
    /\ last_checked_on = [f \in Feeds |-> 0]
    /\ entries = [e \in {1, 2} |-> [feed |-> IF e = 1 THEN "f1" ELSE "f2", arrived |-> 0,
                                    last_updated_on |-> 0]]
    /\ subscriptions \in SUBSET SubscriptionRows
    /\ InitRequests

\* The requests on single entries, by any session; an entry is asked for with
\* no filter or within a group that does not exist.
Next ==
    \/ \E user \in Users \cup {NoUser}, e \in EntryIds, status \in Statuses :
          entry_post(user, e, status)
    \/ \E user \in Users \cup {NoUser}, e \in EntryIds, selector \in EntryQueries :
          entry(user, e, selector)

Spec == Init /\ [][Next]_vars

\* The values of the "before" parameter of POST /entries/mark; NULL stands for a
\* parameter that is missing or is no number.
Cutoffs == {NULL, 0, 1}

\* The feeds were checked at any instant up to now, or never.
InitMark ==
    /\ now = 1
    /\ last_checked_on \in [Feeds -> {NULL, 0, 1}]
    /\ entries = [e \in {1, 2} |-> [feed |-> IF e = 1 THEN "f1" ELSE "f2", arrived |-> 0,
                                    last_updated_on |-> 0]]
    /\ subscriptions = SubscriptionRows
    /\ InitRequests

\* "Mark all as read" by any session, with the requests on single entries that
\* change what is read.
NextMark ==
    \/ \E user \in Users \cup {NoUser}, before \in Cutoffs : mark_begin(user, before)
    \/ \E user \in Users, e \in EntryIds : mark_insert(user, e)
    \/ \E user \in Users : mark_commit(user)
    \/ \E user \in Users, e \in EntryIds, status \in {"read", "unread"} :
          entry_post(user, e, status)
    \/ \E user \in Users, e \in EntryIds : entry(user, e, Unfiltered)

SpecMark == InitMark /\ [][NextMark]_vars

\* Both feeds checked before now.
InitAll ==
    /\ now = 1
    /\ last_checked_on = [f \in Feeds |-> 0]
    /\ entries = [e \in {1, 2} |-> [feed |-> IF e = 1 THEN "f1" ELSE "f2", arrived |-> 0,
                                    last_updated_on |-> 0]]
    /\ subscriptions = SubscriptionRows
    /\ InitRequests

\* Every request that writes Read or Saved, by any user, in any interleaving.
NextAll ==
    \/ \E user \in Users : mark_begin(user, now)
    \/ \E user \in Users, e \in EntryIds : mark_insert(user, e)
    \/ \E user \in Users : mark_commit(user)
    \/ \E user \in Users, e \in EntryIds, status \in Statuses : entry_post(user, e, status)
    \/ \E user \in Users, e \in EntryIds : entry(user, e, Unfiltered)

SpecAll == InitAll /\ [][NextAll]_vars

\* u1 uses every request that writes, bulk marking included, among the writes
\* of u2 on single entries.
NextOthers ==
    \/ mark_begin("u1", now)
    \/ \E e \in EntryIds : mark_insert("u1", e)
    \/ mark_commit("u1")
    \/ \E user \in Users, e \in EntryIds, status \in Statuses : entry_post(user, e, status)
    \/ \E user \in Users, e \in EntryIds : entry(user, e, Unfiltered)

SpecOthers == InitAll /\ [][NextOthers]_vars

\* One entry, which both users mark as the clock advances.
InitClock ==
    /\ now = 0
    /\ last_checked_on = [f \in Feeds |-> 0]
    /\ entries = [e \in {1} |-> [feed |-> "f1", arrived |-> 0, last_updated_on |-> 0]]
    /\ subscriptions \in SUBSET SubscriptionRows
    /\ InitRequests

NextClock ==
    \/ \E user \in Users, e \in EntryIds, status \in Statuses : entry_post(user, e, status)
    \/ Tick

SpecClock == InitClock /\ [][NextClock]_vars

\* No feed checked yet, no entry.
InitFetch ==
    /\ now = 0
    /\ last_checked_on = [f \in Feeds |-> NULL]
    /\ entries = [e \in {} |-> [feed |-> "f1", arrived |-> 0, last_updated_on |-> 0]]
    /\ subscriptions = SubscriptionRows
    /\ InitRequests

\* The Fetcher, the clock and "mark all as read", in any interleaving.
NextFetch ==
    \/ \E feed \in Feeds : fetch_begin(feed)
    \/ fetch_add_entry
    \/ fetch_save
    \/ Tick
    \/ \E user \in Users, before \in 0 .. MaxTime : mark_begin(user, before)
    \/ \E user \in Users, e \in EntryIds : mark_insert(user, e)
    \/ \E user \in Users : mark_commit(user)

SpecFetch == InitFetch /\ [][NextFetch]_vars

\* Three entries, two of f1 with the same last_updated_on and a later one of f2.
InitList ==
    /\ now = 0
    /\ last_checked_on = [f \in Feeds |-> 0]
    /\ entries = [e \in {1, 2, 3} |-> [feed |-> IF e = 3 THEN "f2" ELSE "f1", arrived |-> 0,
                                       last_updated_on |-> IF e = 3 THEN 1 ELSE 0]]
    /\ subscriptions = SubscriptionRows
    /\ InitRequests

\* The list views of any session, page by page, while u1 marks entries and
\* both users open entries; the requests a session without a user can make.
NextList ==
    \/ \E user \in Users \cup {NoUser}, selector \in Selectors, offset \in Offsets :
          entry_list(user, selector, offset)
    \/ \E user \in {"u1", NoUser}, e \in EntryIds, status \in Statuses :
          entry_post(user, e, status)
    \/ \E user \in Users \cup {NoUser}, e \in EntryIds, selector \in EntryQueries :
          entry(user, e, selector)
    \/ \E before \in Cutoffs : mark_begin(NoUser, before)

SpecList == InitList /\ [][NextList]_vars

\* Under any engine: two entries, each with a reference, nothing read or saved.
InitDelete ==
    /\ now = 0
    /\ last_checked_on = [f \in Feeds |-> 0]
    /\ entries = [e \in {1, 2} |-> [feed |-> IF e = 1 THEN "f1" ELSE "f2", arrived |-> 0,
                                    last_updated_on |-> 0]]
    /\ subscriptions = SubscriptionRows
    /\ Read = EmptyBag
    /\ Saved = EmptyBag
    /\ tx = [u \in Users |-> Idle]
    /\ fetch = Resting
    /\ lastOp = NoOp
    /\ response = NoResponse
    /\ engine \in Engines
    /\ references = {[entry |-> e, link |-> l] : e \in {1, 2}, l \in Links}

\* Feeds and entries are deleted between the requests on single entries.
NextDelete ==
    \/ \E feed \in Feeds : delete_feed(feed)
    \/ \E e \in EntryIds : delete_entry(e)
    \/ \E user \in Users, e \in EntryIds, status \in Statuses : entry_post(user, e, status)
    \/ \E user \in Users, e \in EntryIds : entry(user, e, Unfiltered)

SpecDelete == InitDelete /\ [][NextDelete]_vars

----------------------------------------------------------------------------
\* Properties.

\* A Subscription row connects the user to the feed.
Subscribed(user, feed) ==
    \E sub \in subscriptions : sub.user = user /\ sub.feed = feed

\* The entry exists and the user is subscribed to its feed.
Reachable(user, e) == e \in DOMAIN entries /\ Subscribed(user, entries[e].feed)

\* The last request ran _mark_entry to its end or to an early return.
Handled == lastOp.outcome \in {"marked", "ignored"}

\* The entries of the Unread view of a user.
Unread(user) == BagToSet(get_unread_entries(user))

\* The list views a user can ask for.
Views(user) ==
    {get_unread_entries(user), get_saved_entries(user), get_all_entries(user)}
        \cup {get_group_entries(user, g) : g \in Groups}
        \cup {get_feed_entries(user, f) : f \in Feeds}

\* How many rows of (user, entry) a table holds.
Copies(table, user, e) ==
    BagCardinality([r \in RowsOf(table, user, e) |-> table[r]])

\* C1: right after markEntry(u, e, read) on an entry u reaches through a
\* subscription, Unread(u) does not hold e; right after markEntry(u, e, unread)
\* it holds e again.
C1_ReadThenUnread ==
    (lastOp.op = "entry_post" /\ Handled /\ Reachable(lastOp.user, lastOp.entry))
        => /\ lastOp.status = "read" => lastOp.entry \notin Unread(lastOp.user)
           /\ lastOp.status = "unread" => lastOp.entry \in Unread(lastOp.user)

\* C1's case: an entry that had been marked read was marked unread this moment
\* (its row was deleted) and is back in Unread, while the other user has read it.
C1_Witness ==
    /\ lastOp.op = "entry_post" /\ lastOp.status = "unread" /\ lastOp.outcome = "marked"
    /\ Reachable(lastOp.user, lastOp.entry)
    /\ lastOp.entry \in Unread(lastOp.user)
    /\ \E other \in Users \ {lastOp.user} : Copies(Read, other, lastOp.entry) = 1

\* The state that markEntry(user, e, status) asks for, of tables read and saved.
StatusHolds(read, saved, user, e, status) ==
    CASE status = "read" -> Copies(read, user, e) >= 1
      [] status = "unread" -> Copies(read, user, e) = 0
      [] status = "saved" -> Copies(saved, user, e) >= 1
      [] status = "unsaved" -> Copies(saved, user, e) = 0

\* C2: markEntry(u, e, status) ends without an error in the state the status
\* asks for, and applied in that state again it leaves every row of Read and
\* Saved as it was, timestamps included.
C2_Idempotent ==
    [][LET user == lastOp'.user
           e == lastOp'.entry
           status == lastOp'.status
       IN  (/\ lastOp'.op = "entry_post" /\ status \in Statuses
            /\ entry_post(user, e, status))
              => /\ lastOp'.outcome \in {"marked", "ignored"}
                 /\ StatusHolds(Read', Saved', user, e, status)
                 /\ StatusHolds(Read, Saved, user, e, status)
                       => (Read' = Read /\ Saved' = Saved)]_vars

\* C2's case: an entry read and saved at an earlier instant was marked saved a
\* second time this moment, and both rows still carry the earlier instant.
C2_Witness ==
    /\ lastOp.op = "entry_post" /\ lastOp.status = "saved" /\ lastOp.outcome = "ignored"
    /\ \E r \in RowsOf(Saved, lastOp.user, lastOp.entry) : r.on < now
    /\ \E r \in RowsOf(Read, lastOp.user, lastOp.entry) : r.on < now

\* C3: every (user, entry) has at most one row in Read, counting the rows of
\* transactions in flight, and at most one row in Saved.
C3_AtMostOnce ==
    \A user \in Users, e \in DOMAIN entries :
        /\ Copies(Read (+) Pending(user), user, e) <= 1
        /\ Copies(Saved, user, e) <= 1

\* C3's case: "mark all as read" ran into a row that was there already, and the
\* same user holds a saved row as well.
C3_Witness ==
    /\ lastOp.op = "mark_insert" /\ lastOp.outcome = "ignored"
    /\ Copies(Read (+) Pending(lastOp.user), lastOp.user, lastOp.entry) = 1
    /\ \E e \in DOMAIN entries : Copies(Saved, lastOp.user, e) = 1

\* C4: every entry of every list view of every user occurs in it once.
C4_DuplicateFree ==
    \A user \in Users : \A q \in Views(user) : \A e \in DOMAIN q : q[e] = 1

\* C4's case: u1 reaches f1 through two groups, has read and saved its entry,
\* and the All view holds the entry.
C4_Witness ==
    /\ Cardinality({sub \in subscriptions : sub.user = "u1" /\ sub.feed = "f1"}) = 2
    /\ BagIn(1, get_all_entries("u1")) /\ BagIn(1, get_saved_entries("u1"))
    /\ Copies(Read, "u1", 1) = 1

\* C5: every entry a request returns to a user, in a list view or in the
\* single-entry view, is of a feed the user is subscribed to.
C5_OnlySubscribedFeeds ==
    /\ \A user \in Users : \A q \in Views(user) : \A e \in DOMAIN q :
          Subscribed(user, entries[e].feed)
    /\ (lastOp.op = "entry" /\ Handled) => Subscribed(lastOp.user, entries[lastOp.entry].feed)

\* The feed of an entry was checked at or after the instant.
CheckedAtOrAfter(e, instant) ==
    last_checked_on[entries[e].feed] # NULL /\ last_checked_on[entries[e].feed] >= instant

\* The feed of an entry was checked, and before the instant.
CheckedEarlier(e, instant) ==
    last_checked_on[entries[e].feed] # NULL /\ last_checked_on[entries[e].feed] < instant

\* C6: the commit of bulkMarkRead(u, C) adds no Read row for an entry of a feed
\* whose last_checked_on is at or after C.
C6_NothingCheckedAfterCutoff ==
    [][LET user == lastOp'.user
       IN  (lastOp'.op = "mark_commit" /\ mark_commit(user))
              => \A r \in BagToSet(Read') :
                    (CopiesIn(r, Read') > CopiesIn(r, Read))
                        => ~CheckedAtOrAfter(r.entry, tx[user].before)]_vars

\* C6's case: a call has committed a row for one feed while an entry of a feed
\* checked at the cutoff or later, which the user reaches, stays unread.
C6_Witness ==
    /\ lastOp.op = "mark_commit"
    /\ \E e \in DOMAIN entries :
          /\ Copies(Read, lastOp.user, e) = 1
          /\ CheckedEarlier(e, tx[lastOp.user].before)
    /\ \E e \in Unread(lastOp.user) : CheckedAtOrAfter(e, tx[lastOp.user].before)

C10_AtomicVisibility ==
    \A user \in Users :
        tx[user].pc = "loop"
            => \A r \in BagToSet(Pending(user)) : Copies(Read, r.user, r.entry) = 0

\* C10's case: a call holds two inserted rows, and the user's Unread view
\* still shows both entries.
C10_Witness ==
    \E user \in Users :
        /\ tx[user].pc = "loop"
        /\ BagCardinality(Pending(user)) = 2
        /\ \A r \in BagToSet(Pending(user)) : r.entry \in Unread(user)

\* C9: under every interleaving with the Fetcher, no entry that arrived at or
\* after the cutoff C is marked read by bulkMarkRead(u, C).
C9_NoLateArrivalMarked ==
    \A user \in Users :
        \A r \in BagToSet(Pending(user)) : entries[r.entry].arrived < tx[user].before

\* The outcomes of a request that are errors.
ErrorOutcomes == {"Unauthorized", "NotFound", "BadRequest", "DoesNotExist", "ValueError"}

\* C11: a request that ends in an error leaves Read and Saved as they were
\* before it.
C11_NoPartialEffectOnError ==
    [][lastOp'.outcome \in ErrorOutcomes => (Read' = Read /\ Saved' = Saved)]_vars

\* The entries of the All view of a user.
All(user) == BagToSet(get_all_entries(user))

\* C12: for every user, Unread and Saved are within All, every entry the user
\* has read is in All, and Unread and the entries read partition All.
C12_UnreadAndReadPartitionAll ==
    \A user \in Users :
        /\ Unread(user) \subseteq All(user)
        /\ BagToSet(get_saved_entries(user)) \subseteq All(user)
        /\ EntriesIn(Read, user) \subseteq All(user)
        /\ Unread(user) \cap EntriesIn(Read, user) = {}
        /\ Unread(user) \cup EntriesIn(Read, user) = All(user)

\* C13: markEntry with saved or unsaved leaves Read, and the Unread view of
\* every user, as they were; markEntry with read or unread leaves Saved as it was.
C13_SavedAndReadIndependent ==
    [][LET user == lastOp'.user
           e == lastOp'.entry
           status == lastOp'.status
       IN  (/\ lastOp'.op = "entry_post" /\ status \in Statuses
            /\ entry_post(user, e, status))
              => /\ status \in {"saved", "unsaved"}
                       => /\ Read' = Read
                          /\ \A u \in Users : Unread(u)' = Unread(u)
                 /\ status \in {"read", "unread"} => Saved' = Saved]_vars

\* C13's case: an unread entry was saved this moment and is unread still, while
\* the user has read the other entry.
C13_Witness ==
    /\ lastOp.op = "entry_post" /\ lastOp.status = "saved" /\ lastOp.outcome = "marked"
    /\ Copies(Saved, lastOp.user, lastOp.entry) = 1
    /\ lastOp.entry \in Unread(lastOp.user)
    /\ \E e \in DOMAIN entries \ {lastOp.entry} : Copies(Read, lastOp.user, e) = 1

\* The entries a filter selects for a user: those of a feed that a Subscription
\* row of the user reaches, under the filter's condition.
Matching(user, selector) ==
    {e \in DOMAIN entries :
        \E sub \in subscriptions :
            /\ sub.user = user /\ sub.feed = entries[e].feed
            /\ CASE selector.kind = "unread" -> Copies(Read, user, e) = 0
                 [] selector.kind = "saved" -> Copies(Saved, user, e) > 0
                 [] selector.kind = "group" -> sub.group = selector.id
                 [] selector.kind = "feed" -> sub.feed = selector.id
                 [] OTHER -> TRUE}

\* The entries on the page of a response.
PageEntries(r) == {r.entries[i] : i \in 1 .. Len(r.entries)}

\* The last request was a list view and was answered with a page.
Listed == lastOp.op = "entry_list" /\ lastOp.outcome = "ok"

\* C14: the Feed(f) view of an existing feed f that the user has no
\* subscription to is answered, with no entry and a count of 0, whoever else
\* is subscribed to f.
C14_UnsubscribedFeedViewEmpty ==
    (/\ lastOp.op = "entry_list" /\ lastOp.user \in Users
     /\ response.selector.kind = "feed" /\ response.selector.id \in Feeds
     /\ ~Subscribed(lastOp.user, response.selector.id))
        => /\ lastOp.outcome = "ok"
           /\ response.entries = <<>>
           /\ response.count = 0

\* C14's case: u2 has asked for the view of f1, which holds two entries and
\* which u1 is subscribed to and u2 is not.
C14_Witness ==
    /\ Listed /\ lastOp.user = "u2"
    /\ response.selector = [kind |-> "feed", id |-> "f1"]
    /\ Subscribed("u1", "f1") /\ ~Subscribed("u2", "f1")
    /\ Cardinality({e \in DOMAIN entries : entries[e].feed = "f1"}) = 2
    /\ response.count = 0

\* C15: with no write in between, the page at offset 0 and the page at the
\* next offset of the same view hold no entry twice and between them every
\* entry of a view of up to two pages, also when entries share a
\* last_updated_on; next offset = offset + page size.
C15_PagesDisjointAndComplete ==
    [][(/\ Listed /\ Listed'
        /\ lastOp'.user = lastOp.user /\ response'.selector = response.selector
        /\ response.offset = 0 /\ response'.offset = response.next)
          => /\ response.next = response.offset + ENTRIES_PER_PAGE
             /\ response'.next = response'.offset + ENTRIES_PER_PAGE
             /\ PageEntries(response) \cap PageEntries(response') = {}
             /\ response.count <= 2 * ENTRIES_PER_PAGE
                   => PageEntries(response) \cup PageEntries(response')
                         = Matching(lastOp.user, response.selector)]_vars

\* C16: the count returned with a list view is the number of entries the
\* filter selects, the page holds only such entries, each once, as many as
\* the count leaves from the offset up to the page size.
C16_CountMatchesPredicate ==
    Listed =>
        LET matching == Matching(lastOp.user, response.selector)
            left == IF response.count > response.offset
                    THEN response.count - response.offset ELSE 0
        IN  /\ response.count = Cardinality(matching)
            /\ PageEntries(response) \subseteq matching
            /\ Cardinality(PageEntries(response)) = Len(response.entries)
            /\ Len(response.entries)
                  = IF left < ENTRIES_PER_PAGE THEN left ELSE ENTRIES_PER_PAGE

\* C16's case: u1, who reaches f1 through two groups, has both entries of f1
\* unread and the entry of f2 read, and the Unread view returns the two
\* entries of f1 with a count of 2.
C16_Witness ==
    /\ Listed /\ lastOp.user = "u1"
    /\ response.selector = Unfiltered /\ response.offset = 0
    /\ Cardinality({sub \in subscriptions : sub.user = "u1" /\ sub.feed = "f1"}) = 2
    /\ Copies(Read, "u1", 3) = 1 /\ entries[3].feed = "f2"
    /\ PageEntries(response) = {e \in DOMAIN entries : entries[e].feed = "f1"}
    /\ response.count = 2

\* A step of a request made by a session that holds no user.
Anonymous ==
    \/ \E e \in EntryIds, status \in Statuses : entry_post(NoUser, e, status)
    \/ \E e \in EntryIds, selector \in Selectors : entry(NoUser, e, selector)
    \/ \E selector \in Selectors, offset \in Offsets : entry_list(NoUser, selector, offset)
    \/ \E before \in Cutoffs : mark_begin(NoUser, before)

\* C17: markEntry, bulkMarkRead, the single-entry view and the list views, asked
\* for by a session that holds no user, end as Unauthorized, return nothing
\* and leave Read, Saved and the calls in flight as they were.
C17_UnauthorizedChangesNothing ==
    [][(lastOp'.user = NoUser /\ Anonymous)
          => /\ lastOp'.outcome = "Unauthorized"
             /\ response' = NoResponse
             /\ Read' = Read /\ Saved' = Saved /\ tx' = tx]_vars

\* C17's case: a session without a user was refused a markEntry this moment,
\* with rows in Read and Saved and entries still unread.
C17_Witness ==
    /\ lastOp.op = "entry_post" /\ lastOp.user = NoUser /\ lastOp.outcome = "Unauthorized"
    /\ Read # EmptyBag /\ Saved # EmptyBag
    /\ Unread("u1") # {}

\* C18: bulkMarkRead whose cutoff is missing or is no number ends as
\* BadRequest, opens no transaction and inserts no Read row.
C18_BadCutoffIsBadRequest ==
    [][(lastOp'.op = "mark_begin" /\ \E user \in Users : mark_begin(user, NULL))
          => /\ lastOp'.outcome = "BadRequest"
             /\ Read' = Read /\ Saved' = Saved /\ tx' = tx]_vars

\* C18's case: a call without a cutoff was refused this moment, while the user
\* had unread entries in feeds checked before now and a row in Read.
C18_Witness ==
    /\ lastOp.op = "mark_begin" /\ lastOp.outcome = "BadRequest" /\ lastOp.user \in Users
    /\ MarkQuery(lastOp.user, now) # EmptyBag
    /\ EntriesIn(Read, lastOp.user) # {}
    /\ Pending(lastOp.user) = EmptyBag

\* C19: markEntry on an id that is the id of no entry ends as NotFound, whatever
\* the status, and leaves Read and Saved as they were.
C19_MissingEntryIsNotFound ==
    [][lastOp'.op = "entry_post"
          => \A user \in Users, e \in EntryIds \ DOMAIN entries, status \in Statuses :
                entry_post(user, e, status)
                    => /\ lastOp'.outcome = "NotFound"
                       /\ Read' = Read /\ Saved' = Saved]_vars

\* C19's case: markEntry on an id of no entry was refused this moment, while
\* the user holds a read row and a saved row of entries that exist.
C19_Witness ==
    /\ lastOp.op = "entry_post" /\ lastOp.outcome = "NotFound" /\ lastOp.user \in Users
    /\ lastOp.entry \in EntryIds \ DOMAIN entries
    /\ EntriesIn(Read, lastOp.user) # {} /\ EntriesIn(Saved, lastOp.user) # {}

\* C20: a list view asked for with the id of no group, or with the id of no
\* feed, ends as NotFound.
C20_MissingGroupOrFeedIsNotFound ==
    (/\ lastOp.op = "entry_list" /\ lastOp.user \in Users
     /\ \/ response.selector.kind = "group" /\ response.selector.id = NoGroup
        \/ response.selector.kind = "feed" /\ response.selector.id = NoFeed)
        => lastOp.outcome = "NotFound"

\* C21: no entry is left of a feed that was deleted, and every Read, Saved and
\* Reference row refers to an entry that exists.
C21_DeletesCascade ==
    /\ \A e \in DOMAIN entries : entries[e].feed \in DOMAIN last_checked_on
    /\ \A r \in BagToSet(Read) \cup BagToSet(Saved) : r.entry \in DOMAIN entries
    /\ \A r \in references : r.entry \in DOMAIN entries

\* The entries no user has a Read row of.
ReadByNobody == {e \in DOMAIN entries : \A user \in Users : Copies(Read, user, e) = 0}

\* C22: the unread_entry_count of get_stats is the number of entries that no
\* user has a Read row of: an entry leaves the count as soon as any user marks
\* it read, and comes back only when the user who marks it unread was the last
\* one to have it read.
C22_StatsCountEntriesNobodyRead ==
    [][/\ get_stats'.unread_entry_count = Cardinality(ReadByNobody')
       /\ (Handled' /\ lastOp'.status = "read") =>
              get_stats'.unread_entry_count = Cardinality(ReadByNobody \ {lastOp'.entry})
       /\ (Handled' /\ lastOp'.status = "unread") =>
              get_stats'.unread_entry_count = Cardinality(ReadByNobody \cup
                  IF \A other \in Users \ {lastOp'.user} : Copies(Read, other, lastOp'.entry) = 0
                  THEN {lastOp'.entry} ELSE {})]_vars

\* u1 has just marked as unread an entry that u2 still has read, so the entry
\* stays out of the count while another one is in it.
C22_Witness ==
    /\ lastOp.op = "entry_post" /\ lastOp.outcome = "marked" /\ lastOp.status = "unread"
    /\ lastOp.user = "u1"
    /\ Copies(Read, "u2", lastOp.entry) > 0
    /\ get_stats.unread_entry_count > 0
    /\ get_stats.unread_entry_count < get_stats.entry_count

\* Every entry of page `later` is at most as new as every entry of page `earlier`.
NotNewer(later, earlier) ==
    \A i \in 1 .. Len(later), j \in 1 .. Len(earlier) :
        entries[later[i]].last_updated_on <= entries[earlier[j]].last_updated_on

\* C23: every page of a list view is in descending order of last_updated_on,
\* and when a user asks for a later page of the view just listed, no entry of
\* the later page is newer than an entry of the earlier page.
C23_PagesNewestFirst ==
    [][Listed' =>
          /\ \A i, j \in 1 .. Len(response'.entries) :
                i < j => NotNewer(<<response'.entries[j]>>, <<response'.entries[i]>>)
          /\ (/\ Listed
              /\ lastOp'.user = lastOp.user
              /\ response'.selector = response.selector
              /\ response'.offset > response.offset) =>
                 NotNewer(response'.entries, response.entries)]_vars

\* u1 has the second page of the All view, after a first page that was full.
C23_Witness ==
    /\ Listed
    /\ lastOp.user = "u1"
    /\ response.selector.kind = "all"
    /\ response.offset = ENTRIES_PER_PAGE
    /\ Len(response.entries) > 0

\* The rows of a table that belong to a user.
RowsOfUser(table, user) ==
    LET own == {r \in BagToSet(table) : r.user = user}
    IN  [r \in own |-> table[r]]

\* Every list view of a user, by selector.
ViewsBySelector(user) ==
    <<get_unread_entries(user), get_saved_entries(user), get_all_entries(user),
      [g \in Groups |-> get_group_entries(user, g)],
      [f \in Feeds |-> get_feed_entries(user, f)]>>

\* C24: a request of user u (markEntry, the view of one entry, any step of
\* bulkMarkRead) leaves the Read and Saved rows of every other user as they
\* were, and with them every list view of every other user (the views are
\* compared on the steps that change a table they read).
C24_OtherUsersUntouched ==
    [][\A v \in Users \ {lastOp'.user} :
          /\ RowsOfUser(Read', v) = RowsOfUser(Read, v)
          /\ RowsOfUser(Saved', v) = RowsOfUser(Saved, v)
          /\ \/ UNCHANGED <<last_checked_on, entries, subscriptions, Read, Saved>>
             \/ ViewsBySelector(v)' = ViewsBySelector(v)]_vars

\* u1 has just marked as unread an entry that u2 has read and saved, and u2
\* still has both rows.
C24_Witness ==
    /\ lastOp.op = "entry_post" /\ lastOp.outcome = "marked" /\ lastOp.status = "unread"
    /\ lastOp.user = "u1"
    /\ Copies(Read, "u2", lastOp.entry) > 0
    /\ Copies(Saved, "u2", lastOp.entry) > 0
    /\ lastOp.entry \notin Unread("u2")

\* C25: GET /entries/<id> by a logged-in user u leaves exactly one Read row of
\* (u, e) and e out of Unread(u) when the entry exists, whether or not u had it
\* read before; when no entry has the id it ends in NotFound and no table changes.
C25_ViewingMarksRead ==
    [][(lastOp'.op = "entry" /\ lastOp'.user \in Users) =>
          IF lastOp'.entry \in DOMAIN entries
          THEN /\ lastOp'.outcome # "NotFound"
               /\ Copies(Read', lastOp'.user, lastOp'.entry) = 1
               /\ \A user \in Users :
                     user = lastOp'.user => lastOp'.entry \notin Unread(user)'
          ELSE /\ lastOp'.outcome = "NotFound"
               /\ UNCHANGED <<entries, subscriptions, Read, Saved>>]_vars

\* u1 has opened an entry that u1 had already read, and has one Read row of it.
C25_Witness ==
    /\ lastOp.op = "entry" /\ lastOp.outcome = "ignored"
    /\ lastOp.user = "u1"
    /\ Reachable("u1", lastOp.entry)
    /\ Copies(Read, "u1", lastOp.entry) = 1

\* u1 has asked for an entry that does not exist.
C25_WitnessNotFound ==
    /\ lastOp.op = "entry" /\ lastOp.outcome = "NotFound"
    /\ lastOp.user = "u1"

\* The entries of the feeds a user is subscribed to that were never checked.
NeverChecked(user) ==
    {e \in DOMAIN entries : /\ Subscribed(user, entries[e].feed)
                            /\ last_checked_on[entries[e].feed] = NULL}

\* C26: no step of "mark all as read", whatever its cutoff, selects, inserts
\* or commits a Read row for an entry of a subscribed feed that was never
\* checked, and such an entry that was in Unread(u) before the step is in
\* Unread(u) after it.
C26_NeverCheckedFeedNotMarked ==
    [][(lastOp'.op \in {"mark_begin", "mark_insert", "mark_commit"}
            /\ lastOp'.user \in Users) =>
          \A user \in Users : \A e \in NeverChecked(user) :
              user = lastOp'.user =>
                 /\ ~BagIn(e, tx'[user].todo)
                 /\ RowsOf(tx'[user].pending, user, e) = {}
                 /\ Copies(Read', user, e) = Copies(Read, user, e)
                 /\ e \in Unread(user) => e \in Unread(user)']_vars

\* The bulk marking of u1 with cutoff 1 has committed a row for entry 2, of a
\* feed checked at 0, and entry 1, of a feed never checked, is still unread.
C26_Witness ==
    /\ lastOp.op = "mark_commit" /\ lastOp.user = "u1"
    /\ tx["u1"].before = 1
    /\ last_checked_on["f1"] = NULL /\ last_checked_on["f2"] = 0
    /\ Copies(Read, "u1", 2) = 1
    /\ 1 \in NeverChecked("u1") /\ 1 \in Unread("u1")

============================================================================
